---------------------------- MODULE Spec2Model ----------------------------
(***************************************************************************)
(* Conference room booking backend: the booking engine of                  *)
(* BookingsService / BookingsRepository over a MySQL (InnoDB, REPEATABLE   *)
(* READ) store, and the temporal rules of utils/time.                      *)
(*                                                                         *)
(* Time.  A DATETIME column and a normalised request string                *)
(* ("YYYY-MM-DD HH:MM:SS") both hold a wall-clock value; it is modelled as *)
(* the number of seconds since 00:00:00 of day 0.  A JavaScript Date is an *)
(* instant; it is modelled as the number of seconds since 00:00:00 UTC of  *)
(* day 0.  The conversions between the two are the operators below.        *)
(*                                                                         *)
(* Store.  Writes commit atomically with the statement that makes them     *)
(* (after its write a transaction only re-reads its row and commits).  A   *)
(* transaction's plain SELECTs (findById, the triggers' SELECT COUNT) read *)
(* the snapshot taken at its first plain SELECT; SELECT ... FOR UPDATE and *)
(* UPDATE read the latest committed rows.  The range lock taken by         *)
(* SELECT ... FOR UPDATE is a gap (next-key) lock: it does not conflict    *)
(* with another transaction's gap lock, it blocks another transaction from *)
(* writing a row version that the locked range covers.  Two transactions   *)
(* that block each other are a deadlock; InnoDB rolls one of them back.    *)
(***************************************************************************)
EXTENDS Integers, Sequences, FiniteSets

\* ------------------------------------------------------------------ bounds

\* Number of concurrent requests (each request slot serves one request).
MaxReq == 2

\* --------------------------------------------------------------- constants

BUSINESS_HOURS_START == 9
BUSINESS_HOURS_END == 17
MIN_MINUTES == 30
MAX_MINUTES == 240

\* The pool's timezone option '+02:00', in hours: how mysql2 turns a DATETIME
\* column into a Date.
PoolTzHours == 2

\* The process time zone TZ=Africa/Johannesburg (UTC+2, no DST), in hours.
ProcessTzHours == 2

\* ------------------------------------------------------------ time values

Day == 24 * 60 * 60

\* Wall-clock value of hh:mm:ss on day d.
At(d, hh, mm, ss) == d * Day + hh * 3600 + mm * 60 + ss

\* new Date("YYYY-MM-DD HH:MM:SS"): the string is read in the process zone.
ParseLocal(wall) == wall - ProcessTzHours * 3600

\* What mysql2 returns for a DATETIME column: the wall-clock value read in
\* the pool's zone.
FromDb(wall) == wall - PoolTzHours * 3600

\* Date.prototype.toISOString(): the UTC wall-clock fields of the instant,
\* followed by 'Z'.  Compared with a DATETIME column, MySQL reads the
\* wall-clock fields of the string (a DATETIME holds no zone).
ToISOString(instant) == instant

\* Date.prototype.getHours() / getMinutes(): fields in the process zone.
GetHours(instant) == ((instant + ProcessTzHours * 3600) \div 3600) % 24
GetMinutes(instant) == ((instant + ProcessTzHours * 3600) \div 60) % 60

\* ---------------------------------------------------------- temporal rules

validateBusinessHours(startTime, endTime) ==
    LET startHour == GetHours(startTime)
        endHour == GetHours(endTime)
        endMinute == GetMinutes(endTime)
    IN  IF startHour < BUSINESS_HOURS_START THEN FALSE
        ELSE IF endHour > BUSINESS_HOURS_END
                \/ (endHour = BUSINESS_HOURS_END /\ endMinute > 0) THEN FALSE
        ELSE TRUE

\* Math.floor of the difference in minutes.
getDurationMinutes(startTime, endTime) == (endTime - startTime) \div 60

validateDuration(startTime, endTime) ==
    LET duration == getDurationMinutes(startTime, endTime)
    IN  duration >= MIN_MINUTES /\ duration <= MAX_MINUTES

MsgEndAfterStart == "End time must be after start time"
MsgBusinessHours == "Bookings must be within business hours (09:00 - 17:00)"
MsgDuration == "Booking duration must be between 30 minutes and 4 hours"
MsgNone == ""

\* BookingsService.validateBookingTimes: the message of the BadRequestError
\* it throws, MsgNone when it returns.
validateBookingTimes(startTime, endTime) ==
    IF endTime <= startTime THEN MsgEndAfterStart
    ELSE IF ~validateBusinessHours(startTime, endTime) THEN MsgBusinessHours
    ELSE IF ~validateDuration(startTime, endTime) THEN MsgDuration
    ELSE MsgNone


\* ------------------------------------------------------------ the store

\* Rows of the rooms and users tables (ids); they never change.
Rooms == {1, 2}
Users == {1, 2, 3}

\* Users whose token carries the role admin.
Admins == {1}

ActiveStatuses == {"confirmed", "pending"}
Statuses == {"pending", "confirmed", "cancelled", "completed"}

Row(room, user, start, end, status) ==
    [room |-> room, user |-> user, start |-> start, end |-> end,
     status |-> status]

\* No row with this id.
NoRow == Row(0, 0, 0, 0, "none")

Exists(row) == row.status # "none"

\* Wall-clock values the requests of the engine model use: 10:00, 12:00 and
\* 14:00 of day 1.
T10 == At(1, 10, 0, 0)
T12 == At(1, 12, 0, 0)
T14 == At(1, 14, 0, 0)
Times == {T10, T12, T14}

\* The bookings table when the requests arrive (ids 1..Len): states that
\* Create, Update, Cancel and the out-of-band completion produce.
Seeds ==
    { << >>,
      << Row(1, 1, T10, T12, "confirmed") >>,
      << Row(1, 1, T10, T14, "confirmed") >>,
      << Row(1, 1, T10, T12, "completed") >>,
      << Row(1, 1, T10, T12, "confirmed"), Row(1, 2, T12, T14, "pending") >>,
      << Row(1, 1, T10, T12, "cancelled"), Row(2, 2, T10, T12, "confirmed") >> }

MaxSeedLen == CHOOSE n \in 0..4 : /\ \E s \in Seeds : Len(s) = n
                                  /\ \A s \in Seeds : Len(s) <= n

BookingIds == 1..(MaxSeedLen + MaxReq)

EmptyDb == [id \in BookingIds |-> NoRow]

SeedDb(s) == [id \in BookingIds |-> IF id <= Len(s) THEN s[id] ELSE NoRow]

\* findOverlapping with closed intervals: touching bookings count as overlap.
findOverlappingInclusive(table, roomId, startTime, endTime, excludeBookingId) ==
    Cardinality({ id \in BookingIds :
        /\ Exists(table[id])
        /\ table[id].room = roomId
        /\ table[id].status \in {"confirmed", "pending"}
        /\ table[id].start <= endTime
        /\ table[id].end >= startTime
        /\ (excludeBookingId # 0 => id # excludeBookingId) })

\* BookingsRepository.findOverlapping: the number of rows the locking read
\* returns.  excludeBookingId = 0 stands for null.
findOverlapping(table, roomId, startTime, endTime, excludeBookingId) ==
    Cardinality({ id \in BookingIds :
        /\ Exists(table[id])
        /\ table[id].room = roomId
        /\ table[id].status \in {"confirmed", "pending"}
        /\ table[id].start < endTime
        /\ table[id].end > startTime
        /\ (excludeBookingId # 0 => id # excludeBookingId) })

\* The range lock a transaction holds after its locking read found no row.
NoLock == [room |-> 0, start |-> 0, end |-> 0, excl |-> 0]

RangeLock(roomId, startTime, endTime, excludeBookingId) ==
    [room |-> roomId, start |-> startTime, end |-> endTime,
     excl |-> excludeBookingId]

\* A row version with this id falls in the locked range.
LockCovers(lock, id, row) ==
    /\ lock.room # 0
    /\ Exists(row)
    /\ row.room = lock.room
    /\ row.status \in {"confirmed", "pending"}
    /\ row.start < lock.end
    /\ row.end > lock.start
    /\ (lock.excl # 0 => id # lock.excl)

\* The overlap test of both triggers.
TriggerOverlap(new, row) ==
    \/ (new.start >= row.start /\ new.start < row.end)
    \/ (new.end > row.start /\ new.end <= row.end)
    \/ (new.start <= row.start /\ new.end >= row.end)

\* Trigger prevent_double_booking_insert: TRUE when it signals SQLSTATE 45000.
\* view is what the transaction's plain SELECT reads.
prevent_double_booking_insert(view, new) ==
    Cardinality({ id \in BookingIds :
        /\ Exists(view[id])
        /\ view[id].room = new.room
        /\ view[id].status \in {"confirmed", "pending"}
        /\ TriggerOverlap(new, view[id]) }) > 0

\* Trigger prevent_double_booking_update.
prevent_double_booking_update(view, newId, old, new) ==
    /\ \/ new.room # old.room
       \/ new.start # old.start
       \/ new.end # old.end
       \/ new.status \in {"confirmed", "pending"}
    /\ Cardinality({ id \in BookingIds :
        /\ Exists(view[id])
        /\ view[id].room = new.room
        /\ view[id].status \in {"confirmed", "pending"}
        /\ id # newId
        /\ TriggerOverlap(new, view[id]) }) > 0

\* A bookings table without the CHECK constraint.
chk_none(row) == TRUE

\* CONSTRAINT chk_end_after_start CHECK (end_time > start_time).
chk_end_after_start(row) == row.end > row.start

\* ------------------------------------------------------------- requests

\* A request body.  An absent field is 0 (room_id, start_time, end_time) or
\* "absent" (status).  An update body with no field set here is one that
\* sets only title or description.
Data(room, user, start, end, status) ==
    [room |-> room, user |-> user, start |-> start, end |-> end,
     status |-> status]

NoData == Data(0, 0, 0, 0, "absent")

\* Ids a request may name: 3 is no room, 4 is no user.
CreateInputs ==
    { Data(room, user, start, end, "absent") :
        room \in {1, 2, 3}, user \in {1, 4}, start \in Times, end \in Times }

\* Update bodies: one of room, start, end, start and end, status, or none.
UpdateInputs ==
    {NoData}
    \cup { Data(room, 0, 0, 0, "absent") : room \in {1, 2, 3} }
    \cup { Data(0, 0, start, 0, "absent") : start \in Times }
    \cup { Data(0, 0, 0, end, "absent") : end \in Times }
    \cup { Data(0, 0, start, end, "absent") : start \in Times, end \in Times }
    \cup { Data(0, 0, 0, 0, status) : status \in Statuses }

\* BookingsRepository.create: the inserted row.
RepoCreate(data) == Row(data.room, data.user, data.start, data.end, "confirmed")

\* BookingsRepository.update: UPDATE bookings SET <the given fields>.
RepoUpdate(old, data) ==
    [old EXCEPT
        !.room = IF data.room # 0 THEN data.room ELSE @,
        !.start = IF data.start # 0 THEN data.start ELSE @,
        !.end = IF data.end # 0 THEN data.end ELSE @,
        !.status = IF data.status # "absent" THEN data.status ELSE @]

\* A cancel that flips the status instead of setting it.
RepoCancelToggle(old) ==
    [old EXCEPT !.status = IF @ = "cancelled" THEN "confirmed" ELSE "cancelled"]

\* BookingsRepository.cancel: UPDATE bookings SET status = 'cancelled'.
RepoCancel(old) == [old EXCEPT !.status = "cancelled"]

\* updateBooking, "Determine final values after update".
finalRoomId(cur, data) == IF data.room # 0 THEN data.room ELSE cur.room
finalStartTime(cur, data) ==
    IF data.start # 0 THEN ParseLocal(data.start) ELSE FromDb(cur.start)
finalEndTime(cur, data) ==
    IF data.end # 0 THEN ParseLocal(data.end) ELSE FromDb(cur.end)
finalStatus(cur, data) ==
    IF data.status # "absent" THEN data.status ELSE cur.status

needsOverlapCheck(cur, data) ==
    \/ data.room # 0
    \/ data.start # 0
    \/ data.end # 0
    \/ finalStatus(cur, data) = "confirmed"
    \/ finalStatus(cur, data) = "pending"

\* An overlap check whose result does not stop the request.
AfterOverlapCheckNoThrow(overlapCount) == "write"

\* "if (overlapCount > 0) throw new ConflictError(...)": where the request
\* goes after the overlap check.
AfterOverlapCheck(overlapCount) == IF overlapCount > 0 THEN "done" ELSE "write"

OK == "OK"
BAD_REQUEST == "BAD_REQUEST"
NOT_FOUND == "NOT_FOUND"
CONFLICT == "CONFLICT"
INTERNAL_SERVER_ERROR == "INTERNAL_SERVER_ERROR"

MsgCancelled == "Cannot update a cancelled booking"
MsgConflict == "Booking conflict: Room is already booked for the selected time period"
MsgTrigger == "SQLSTATE 45000 (trigger)"
MsgCheck == "Check constraint chk_end_after_start is violated"
MsgDeadlock == "Deadlock found when trying to get lock"

\* -------------------------------------------------------- invitations

\* A row of booking_invitations (its id left out).  responded_at = 0 is NULL.
Invitation(booking, user, status, invited_at, responded_at) ==
    [booking |-> booking, user |-> user, status |-> status,
     invited_at |-> invited_at, responded_at |-> responded_at]

InvitationStatuses == {"pending", "accepted", "declined"}

\* The instants the clock shows, in order: one second before 10:00 (local) of
\* day 1, 10:00 itself, one second after it.
Clock == << FromDb(T10) - 1, FromDb(T10), FromDb(T10) + 1 >>

\* An instant before every instant of Clock: when stored invitations were made.
Earlier == FromDb(T10) - 7200

\* NOW() of the database session, a wall-clock value in the server's zone,
\* which the pool's timezone option states.
DbNow(instant) == instant + PoolTzHours * 3600

\* The answer of a handler: its number, operation, requester, booking, its
\* other argument, error code (OK when it answered 2xx) and the rows returned.
Res(n, op, who, booking, arg, code, rows) ==
    [n |-> n, op |-> op, who |-> who, booking |-> booking, arg |-> arg,
     code |-> code, rows |-> rows]

NoRes == Res(0, "none", 0, 0, 0, "", {})

\* An invitation transaction between beginTransaction and commit / rollback:
\* table is the booking_invitations table as the transaction sees it after its
\* write, rows the value its callback returns, to the notifications its
\* callback sends, fault what went wrong in it.
Txn(pc, op, who, booking, arg, table, rows, to, fault) ==
    [pc |-> pc, op |-> op, who |-> who, booking |-> booking, arg |-> arg,
     table |-> table, rows |-> rows, to |-> to, fault |-> fault]

NoTxn == Txn("idle", "none", 0, 0, 0, {}, {}, {}, "none")

VARIABLES
    db,       \* the committed bookings table: id -> row
    nextId,   \* AUTO_INCREMENT of bookings
    req,      \* the requests: slot -> its operation, position and result
    tStart,   \* temporal rules: the start_time under validation
    tEnd,     \* temporal rules: the end_time under validation
    tMsg,     \* temporal rules: what validateBookingTimes answered
    inv,      \* the committed booking_invitations table: a set of rows
    now,      \* the current instant
    res,      \* the answer of the latest invitation or query handler
    mail,     \* the notifications triggered so far
    txn       \* the invitation transaction in flight, step by step

vars == <<db, nextId, req, tStart, tEnd, tMsg, inv, now, res, mail, txn>>

Req == 1..MaxReq

IdleReq ==
    [op |-> "none", id |-> 0, data |-> NoData, pc |-> "idle", cur |-> NoRow,
     snap |-> EmptyDb, lock |-> NoLock, code |-> "", msg |-> ""]

Init ==
    /\ \E s \in Seeds : db = SeedDb(s) /\ nextId = Len(s) + 1
    /\ req = [r \in Req |-> IdleReq]
    /\ tStart = 0
    /\ tEnd = 0
    /\ tMsg = "idle"
    /\ inv = {}
    /\ now = Clock[1]
    /\ res = NoRes
    /\ mail = {}
    /\ txn = NoTxn

\* The request fails: the error reaches errorHandler, the transaction (if
\* any) is rolled back and its locks are released.
Fail(q, code, msg) ==
    [q EXCEPT !.pc = "done", !.lock = NoLock, !.code = code, !.msg = msg]

\* The request's transaction commits and the handler answers.
Succeed(q) == [q EXCEPT !.pc = "done", !.lock = NoLock, !.code = OK]

\* Request slots are taken in order.
MayStart(r) == req[r].pc = "idle" /\ \A p \in Req : p < r => req[p].pc # "idle"

\* The row version a request at "write" is about to write, and its id.
PendingId(q) == IF q.op = "create" THEN nextId ELSE q.id
PendingRow(q) ==
    IF q.op = "create" THEN RepoCreate(q.data)
    ELSE IF q.op = "update" THEN RepoUpdate(db[q.id], q.data)
    ELSE RepoCancel(db[q.id])

\* Request a waits for a range lock that request b holds.
Blocks(a, b) ==
    /\ a # b
    /\ req[a].pc = "write"
    /\ req[b].pc = "write"
    /\ LockCovers(req[b].lock, PendingId(req[a]), PendingRow(req[a]))

Waiting(a) == \E b \in Req : Blocks(a, b)

RECURSIVE WaitsFor(_, _, _)
WaitsFor(a, target, n) ==
    /\ n > 0
    /\ \E b \in Req : Blocks(a, b) /\ (b = target \/ WaitsFor(b, target, n - 1))

InDeadlock(r) == WaitsFor(r, r, MaxReq)

\* -------------------------------------------------------------- actions

\* createBooking up to its overlap check: validateBookingTimes, the room and
\* user lookups, then, in the transaction, findOverlapping with no exclusion.
CreateCheck(r, data) ==
    /\ MayStart(r)
    /\ LET q == [req[r] EXCEPT !.op = "create", !.data = data]
           v == validateBookingTimes(ParseLocal(data.start), ParseLocal(data.end))
           overlapCount == findOverlapping(db, data.room, data.start, data.end, 0)
       IN  req' = [req EXCEPT ![r] =
             IF v # MsgNone THEN Fail(q, BAD_REQUEST, v)
             ELSE IF data.room \notin Rooms THEN Fail(q, NOT_FOUND, "Room not found")
             ELSE IF data.user \notin Users THEN Fail(q, NOT_FOUND, "User not found")
             ELSE IF overlapCount > 0
                  THEN [Fail(q, CONFLICT, MsgConflict) EXCEPT
                            !.pc = AfterOverlapCheck(overlapCount)]
             ELSE [q EXCEPT !.pc = AfterOverlapCheck(overlapCount),
                            !.lock = RangeLock(data.room, data.start, data.end, 0)]]
    /\ UNCHANGED <<db, nextId, tStart, tEnd, tMsg, inv, now, res, mail, txn>>

\* createBooking's bookingsRepo.create and the commit: the BEFORE INSERT
\* trigger, the INSERT, the re-read.
CreateInsert(r) ==
    /\ req[r].op = "create"
    /\ req[r].pc = "write"
    /\ ~Waiting(r)
    /\ LET new == RepoCreate(req[r].data)
       IN  IF prevent_double_booking_insert(db, new)
           THEN /\ req' = [req EXCEPT ![r] = Fail(@, INTERNAL_SERVER_ERROR, MsgTrigger)]
                /\ UNCHANGED <<db, nextId>>
           ELSE IF ~chk_end_after_start(new)
           THEN /\ req' = [req EXCEPT ![r] = Fail(@, INTERNAL_SERVER_ERROR, MsgCheck)]
                /\ UNCHANGED <<db, nextId>>
           ELSE /\ db' = [db EXCEPT ![nextId] = new]
                /\ nextId' = nextId + 1
                /\ req' = [req EXCEPT ![r] = [Succeed(@) EXCEPT !.id = nextId]]
    /\ UNCHANGED <<tStart, tEnd, tMsg, inv, now, res, mail, txn>>

\* updateBooking up to its overlap check: findById in the transaction (its
\* first plain SELECT: the snapshot), the cancelled test, the final values,
\* validateBookingTimes and the room lookup.
UpdateFind(r, id, data) ==
    /\ MayStart(r)
    /\ LET q == [req[r] EXCEPT !.op = "update", !.id = id, !.data = data]
           currentBooking == db[id]
           v == validateBookingTimes(finalStartTime(currentBooking, data),
                                     finalEndTime(currentBooking, data))
       IN  req' = [req EXCEPT ![r] =
             IF ~Exists(currentBooking) THEN Fail(q, NOT_FOUND, "Booking not found")
             ELSE IF currentBooking.status = "cancelled"
                  THEN Fail(q, BAD_REQUEST, MsgCancelled)
             ELSE IF (data.start # 0 \/ data.end # 0) /\ v # MsgNone
                  THEN Fail(q, BAD_REQUEST, v)
             ELSE IF data.room # 0 /\ data.room # currentBooking.room
                     /\ data.room \notin Rooms
                  THEN Fail(q, NOT_FOUND, "Room not found")
             ELSE [q EXCEPT !.cur = currentBooking, !.snap = db,
                            !.pc = IF needsOverlapCheck(currentBooking, data)
                                   THEN "check" ELSE "write"]]
    /\ UNCHANGED <<db, nextId, tStart, tEnd, tMsg, inv, now, res, mail, txn>>

\* updateBooking's findOverlapping, excluding the booking's own id, with the
\* final times as ISO strings.
UpdateCheck(r) ==
    /\ req[r].op = "update"
    /\ req[r].pc = "check"
    /\ LET q == req[r]
           roomId == finalRoomId(q.cur, q.data)
           startTime == ToISOString(finalStartTime(q.cur, q.data))
           endTime == ToISOString(finalEndTime(q.cur, q.data))
           overlapCount == findOverlapping(db, roomId, startTime, endTime, q.id)
       IN  req' = [req EXCEPT ![r] =
             IF overlapCount > 0
             THEN [Fail(q, CONFLICT, MsgConflict) EXCEPT
                       !.pc = AfterOverlapCheck(overlapCount)]
             ELSE [q EXCEPT !.pc = AfterOverlapCheck(overlapCount),
                            !.lock = RangeLock(roomId, startTime, endTime, q.id)]]
    /\ UNCHANGED <<db, nextId, tStart, tEnd, tMsg, inv, now, res, mail, txn>>

\* updateBooking's bookingsRepo.update and the commit: the UPDATE acts on the
\* latest committed row; the BEFORE UPDATE trigger counts in the snapshot.
UpdateWrite(r) ==
    /\ req[r].op = "update"
    /\ req[r].pc = "write"
    /\ ~Waiting(r)
    /\ LET q == req[r]
           old == db[q.id]
           new == RepoUpdate(old, q.data)
       IN  IF prevent_double_booking_update(q.snap, q.id, old, new)
           THEN /\ req' = [req EXCEPT ![r] = Fail(@, INTERNAL_SERVER_ERROR, MsgTrigger)]
                /\ UNCHANGED db
           ELSE IF ~chk_end_after_start(new)
           THEN /\ req' = [req EXCEPT ![r] = Fail(@, INTERNAL_SERVER_ERROR, MsgCheck)]
                /\ UNCHANGED db
           ELSE /\ db' = [db EXCEPT ![q.id] = new]
                /\ req' = [req EXCEPT ![r] = Succeed(@)]
    /\ UNCHANGED <<nextId, tStart, tEnd, tMsg, inv, now, res, mail, txn>>

\* cancelBooking up to its write: findById, the idempotent return.
CancelFind(r, id) ==
    /\ MayStart(r)
    /\ LET q == [req[r] EXCEPT !.op = "cancel", !.id = id]
           booking == db[id]
       IN  req' = [req EXCEPT ![r] =
             IF ~Exists(booking) THEN Fail(q, NOT_FOUND, "Booking not found")
             ELSE IF booking.status = "cancelled" THEN Succeed(q)
             ELSE [q EXCEPT !.cur = booking, !.snap = db, !.pc = "write"]]
    /\ UNCHANGED <<db, nextId, tStart, tEnd, tMsg, inv, now, res, mail, txn>>

\* cancelBooking's bookingsRepo.cancel and the commit.
CancelWrite(r) ==
    /\ req[r].op = "cancel"
    /\ req[r].pc = "write"
    /\ ~Waiting(r)
    /\ LET q == req[r]
           old == db[q.id]
           new == RepoCancel(old)
       IN  IF prevent_double_booking_update(q.snap, q.id, old, new)
           THEN /\ req' = [req EXCEPT ![r] = Fail(@, INTERNAL_SERVER_ERROR, MsgTrigger)]
                /\ UNCHANGED db
           ELSE /\ db' = [db EXCEPT ![q.id] = new]
                /\ req' = [req EXCEPT ![r] = Succeed(@)]
    /\ UNCHANGED <<nextId, tStart, tEnd, tMsg, inv, now, res, mail, txn>>

\* InnoDB finds the request's transaction in a deadlock and rolls it back:
\* its statement fails with ER_LOCK_DEADLOCK, which is no HttpError.
Deadlock(r) ==
    /\ InDeadlock(r)
    /\ req' = [req EXCEPT ![r] = Fail(@, INTERNAL_SERVER_ERROR, MsgDeadlock)]
    /\ UNCHANGED <<db, nextId, tStart, tEnd, tMsg, inv, now, res, mail, txn>>

Next ==
    \E r \in Req :
        \/ \E data \in CreateInputs : CreateCheck(r, data)
        \/ CreateInsert(r)
        \/ \E id \in BookingIds, data \in UpdateInputs : UpdateFind(r, id, data)
        \/ UpdateCheck(r)
        \/ UpdateWrite(r)
        \/ \E id \in BookingIds : CancelFind(r, id)
        \/ CancelWrite(r)
        \/ Deadlock(r)

Spec == Init /\ [][Next]_vars

\* ------------------------------------------- temporal rules, on their own

\* Wall-clock values around the boundaries of the rules.
FineTimes ==
    { At(1, 8, 59, 0), At(1, 9, 0, 0), At(1, 9, 29, 0), At(1, 9, 30, 0),
      At(1, 13, 0, 0), At(1, 13, 0, 59), At(1, 13, 1, 0), At(1, 16, 30, 0),
      At(1, 17, 0, 0), At(1, 17, 0, 1), At(1, 17, 1, 0), At(1, 23, 30, 0),
      At(2, 0, 0, 0), At(2, 9, 0, 0) }

InitTime ==
    /\ db = EmptyDb
    /\ nextId = 1
    /\ req = [r \in Req |-> IdleReq]
    /\ tStart \in FineTimes
    /\ tEnd \in FineTimes
    /\ tMsg = "unchecked"
    /\ inv = {}
    /\ now = Clock[1]
    /\ res = NoRes
    /\ mail = {}
    /\ txn = NoTxn

\* createBooking's "Business rule validations" on a request's times.
ValidateTimes ==
    /\ tMsg = "unchecked"
    /\ tMsg' = validateBookingTimes(ParseLocal(tStart), ParseLocal(tEnd))
    /\ UNCHANGED <<db, nextId, req, tStart, tEnd, inv, now, res, mail, txn>>

NextTime == ValidateTimes

SpecTime == InitTime /\ [][NextTime]_vars

\* ------------------------------------------ invitation repository

FORBIDDEN == "FORBIDDEN"

\* The rows of one (booking, user) pair.
PairRows(table, bookingId, userId) ==
    { row \in table : row.booking = bookingId /\ row.user = userId }

\* An INSERT of the pairs with no duplicate-key clause and no unique key.
RepoAddInviteesInsert(table, bookingId, userIds, at) ==
    table \cup { Invitation(bookingId, u, "pending", at, 0) : u \in userIds }

\* InvitationsRepository.addInvitees: INSERT ... ON DUPLICATE KEY UPDATE
\* invited_at = CURRENT_TIMESTAMP, status = 'pending', under the unique key
\* (booking_id, user_id).
RepoAddInvitees(table, bookingId, userIds, at) ==
    { row \in table : ~(row.booking = bookingId /\ row.user \in userIds) }
    \cup { [row EXCEPT !.invited_at = at, !.status = "pending"] :
             row \in { x \in table : x.booking = bookingId /\ x.user \in userIds } }
    \cup { Invitation(bookingId, u, "pending", at, 0) :
             u \in { x \in userIds : PairRows(table, bookingId, x) = {} } }

\* InvitationsRepository.removeInvitee: DELETE ... WHERE booking_id = ? AND
\* user_id = ?.
RepoRemoveInvitee(table, bookingId, userId) ==
    table \ PairRows(table, bookingId, userId)

\* InvitationsRepository.updateStatus.
RepoUpdateStatus(table, bookingId, userId, status, at) ==
    (table \ PairRows(table, bookingId, userId))
    \cup { [row EXCEPT !.status = status, !.responded_at = at] :
             row \in PairRows(table, bookingId, userId) }

\* InvitationsRepository.isUserInvited.
isUserInvited(table, bookingId, userId) ==
    PairRows(table, bookingId, userId) # {}

\* A query that shows the stored status only.
DisplayStatusStored(row, booking, instant) == row.status

\* The display_status column of getInviteesByBooking.
DisplayStatus(row, booking, instant) ==
    IF booking.start <= DbNow(instant) /\ row.status = "pending"
    THEN "expired" ELSE row.status

\* InvitationsRepository.getInviteesByBooking: the rows of the booking, joined
\* with bookings (and users), each with its display_status.
getInviteesByBooking(table, bookings, bookingId, instant) ==
    { [user |-> row.user, status |-> row.status,
       display_status |-> DisplayStatus(row, bookings[bookingId], instant)] :
        row \in { x \in table : x.booking = bookingId /\ x.user \in Users
                                 /\ Exists(bookings[bookingId]) } }

\* BookingsRepository.findByUserId: SELECT DISTINCT ... WHERE b.user_id = ? OR
\* bi.user_id = ?, with ' AND b.status = ?' appended for a status filter (AND
\* binds tighter than OR).  status = "" stands for no filter.
findByUserId(bookings, table, userId, status) ==
    { [id |-> id, role |-> IF bookings[id].user = userId THEN "owner" ELSE "invitee"] :
        id \in { x \in BookingIds :
                   /\ Exists(bookings[x])
                   /\ bookings[x].room \in Rooms
                   /\ \/ bookings[x].user = userId
                      \/ /\ isUserInvited(table, x, userId)
                         /\ (status # "" => bookings[x].status = status) } }

\* A notification handed to the mailer.
Mail(kind, to, booking) == [kind |-> kind, to |-> to, booking |-> booking]

\* -------------------------------------------- invitation handlers

\* Number of invitation and query requests served in one behaviour.
MaxOps == 2

MsgNoValidUsers == "No valid users to invite"
MsgStarted == "Cannot respond to invitation - booking has already started or passed"

\* A filter that keeps the requester's own id.
validUserIdsWithOwner(userIds, requestingUserId) ==
    { u \in userIds : u \in Users }

\* A filter that looks no user up.
validUserIdsNoLookup(userIds, requestingUserId) ==
    { u \in userIds : u # requestingUserId }

\* InvitationsService.addInvitees, "Verify all users exist": the ids that are
\* not the requester's and resolve to a user.
validUserIds(userIds, requestingUserId) ==
    { u \in userIds : u # requestingUserId /\ u \in Users }

\* An ownership test every requester passes.
isOwnerAnyone(booking, requestingUserId) == TRUE

\* addInvitees / removeInvitee: booking.user_id !== requestingUserId throws.
isOwner(booking, requestingUserId) == booking.user = requestingUserId

\* A deadline test that lets a response through at the start instant itself.
hasStartedStrict(booking, instant) == FromDb(booking.start) < instant

\* respondToInvitation: booking.start_time <= new Date().
hasStarted(booking, instant) == FromDb(booking.start) <= instant

\* A view test that knows the owner and admins only.
mayViewInviteesOwnerOnly(isAdmin, booking, bookingId, requestingUserId, table) ==
    isAdmin \/ booking.user = requestingUserId

\* getInviteesByBooking: "Only the owner, invitees, or admins can view".
mayViewInvitees(isAdmin, booking, bookingId, requestingUserId, table) ==
    \/ isAdmin
    \/ booking.user = requestingUserId
    \/ isUserInvited(table, bookingId, requestingUserId)

\* What a handler leaves alone besides the tables it names.
BookingsUnchanged == UNCHANGED <<db, nextId, req, tStart, tEnd, tMsg, now, txn>>

\* POST /bookings/:id/invitees: InvitationsService.addInvitees.
AddInvitees(who, bookingId, userIds) ==
    /\ res.n < MaxOps
    /\ LET booking == db[bookingId]
           valid == validUserIds(userIds, who)
           table == RepoAddInvitees(inv, bookingId, valid, now)
           answer(code, rows) ==
               Res(res.n + 1, "addInvitees", who, bookingId, userIds, code, rows)
       IN  IF ~Exists(booking)
           THEN res' = answer(NOT_FOUND, {}) /\ UNCHANGED <<inv, mail>>
           ELSE IF ~isOwner(booking, who)
           THEN res' = answer(FORBIDDEN, {}) /\ UNCHANGED <<inv, mail>>
           ELSE IF valid = {}
           THEN res' = answer(BAD_REQUEST, {}) /\ UNCHANGED <<inv, mail>>
           ELSE /\ inv' = table
                /\ res' = answer(OK, getInviteesByBooking(table, db, bookingId, now))
                /\ mail' = mail \cup { Mail("invitation", u, bookingId) : u \in valid }
    /\ BookingsUnchanged

\* DELETE /bookings/:bookingId/invitees/:userId: InvitationsService.removeInvitee.
RemoveInvitee(who, bookingId, inviteeUserId) ==
    /\ res.n < MaxOps
    /\ LET booking == db[bookingId]
           answer(code) ==
               Res(res.n + 1, "removeInvitee", who, bookingId, inviteeUserId, code, {})
       IN  IF ~Exists(booking)
           THEN res' = answer(NOT_FOUND) /\ UNCHANGED inv
           ELSE IF ~isOwner(booking, who)
           THEN res' = answer(FORBIDDEN) /\ UNCHANGED inv
           ELSE IF ~isUserInvited(inv, bookingId, inviteeUserId)
           THEN res' = answer(NOT_FOUND) /\ UNCHANGED inv
           ELSE /\ inv' = RepoRemoveInvitee(inv, bookingId, inviteeUserId)
                /\ res' = answer(OK)
    /\ UNCHANGED mail
    /\ BookingsUnchanged

\* PATCH /bookings/:id/invitation: InvitationsService.respondToInvitation.
RespondToInvitation(who, bookingId, status) ==
    /\ res.n < MaxOps
    /\ LET booking == db[bookingId]
           answer(code) ==
               Res(res.n + 1, "respondToInvitation", who, bookingId, status, code, {})
       IN  IF ~isUserInvited(inv, bookingId, who)
           THEN res' = answer(NOT_FOUND) /\ UNCHANGED <<inv, mail>>
           ELSE IF ~Exists(booking)
           THEN res' = answer(NOT_FOUND) /\ UNCHANGED <<inv, mail>>
           ELSE IF hasStarted(booking, now)
           THEN res' = answer(BAD_REQUEST) /\ UNCHANGED <<inv, mail>>
           ELSE /\ inv' = RepoUpdateStatus(inv, bookingId, who, status, now)
                /\ res' = answer(OK)
                /\ mail' = IF status = "accepted"
                           THEN mail \cup {Mail("accepted", booking.user, bookingId)}
                           ELSE mail
    /\ BookingsUnchanged

\* GET /bookings/:id/invitees: InvitationsService.getInviteesByBooking.
GetInvitees(who, bookingId) ==
    /\ res.n < MaxOps
    /\ LET booking == db[bookingId]
           answer(code, rows) ==
               Res(res.n + 1, "getInvitees", who, bookingId, 0, code, rows)
       IN  res' =
             IF ~Exists(booking) THEN answer(NOT_FOUND, {})
             ELSE IF ~mayViewInvitees(who \in Admins, booking, bookingId, who, inv)
                  THEN answer(FORBIDDEN, {})
             ELSE answer(OK, getInviteesByBooking(inv, db, bookingId, now))
    /\ UNCHANGED <<inv, mail>>
    /\ BookingsUnchanged

\* GET /bookings/:id: BookingsController.getBookingById.
GetBookingById(who, bookingId) ==
    /\ res.n < MaxOps
    /\ LET booking == db[bookingId]
           answer(code, rows) ==
               Res(res.n + 1, "getBookingById", who, bookingId, 0, code, rows)
       IN  res' =
             IF ~Exists(booking) THEN answer(NOT_FOUND, {})
             ELSE IF who \notin Admins /\ booking.user # who
                  THEN answer(FORBIDDEN, {})
             ELSE answer(OK, {booking})
    /\ UNCHANGED <<inv, mail>>
    /\ BookingsUnchanged

\* GET /users/:id/bookings?status=: BookingsService.getUserBookings, as the
\* user or an admin asks for it.
GetUserBookings(userId, status) ==
    /\ res.n < MaxOps
    /\ res' = Res(res.n + 1, "getUserBookings", userId, 0, status, OK,
                  findByUserId(db, inv, userId, status))
    /\ UNCHANGED <<inv, mail>>
    /\ BookingsUnchanged

\* Time passes.
Tick ==
    /\ \E i \in 1..(Len(Clock) - 1) : now = Clock[i] /\ now' = Clock[i + 1]
    /\ UNCHANGED <<db, nextId, req, tStart, tEnd, tMsg, inv, res, mail, txn>>

\* ------------------------------------- bookings with their invitations

\* The bookings table when the invitation requests arrive.
InvSeeds ==
    { << Row(1, 2, T10, T12, "confirmed"), Row(2, 3, T12, T14, "pending") >>,
      << Row(1, 2, T10, T12, "confirmed"), Row(1, 2, T12, T14, "cancelled") >> }

\* The booking_invitations table when the requests arrive.
InvTables ==
    { {},
      { Invitation(1, 3, "accepted", Earlier, Earlier),
        Invitation(1, 1, "pending", Earlier, 0) },
      { Invitation(1, 3, "declined", Earlier, Earlier),
        Invitation(2, 1, "accepted", Earlier, Earlier) } }

InitInv ==
    /\ \E s \in InvSeeds : db = SeedDb(s) /\ nextId = Len(s) + 1
    /\ req = [r \in Req |-> IdleReq]
    /\ tStart = 0
    /\ tEnd = 0
    /\ tMsg = "idle"
    /\ inv \in InvTables
    /\ now = Clock[1]
    /\ res = NoRes
    /\ mail = {}
    /\ txn = NoTxn

\* Ids the invitation requests name: booking 3 is missing, user 4 is missing.
InvBookingIds == {1, 2, 3}
InviteLists == { {1}, {2}, {3}, {4}, {2, 3}, {2, 4}, {1, 3, 4} }

\* The booking requests that run beside the invitation requests.
InvUpdateInputs == { Data(0, 0, T12, T14, "absent"), Data(0, 0, 0, 0, "completed") }

NextInv ==
    \/ \E who \in Users, id \in InvBookingIds, userIds \in InviteLists :
          AddInvitees(who, id, userIds)
    \/ \E who \in Users, id \in InvBookingIds, u \in Users :
          RemoveInvitee(who, id, u)
    \/ \E who \in Users, id \in InvBookingIds, status \in {"accepted", "declined"} :
          RespondToInvitation(who, id, status)
    \/ \E who \in Users, id \in InvBookingIds : GetInvitees(who, id)
    \/ \E who \in Users, id \in InvBookingIds : GetBookingById(who, id)
    \/ \E userId \in Users, status \in {""} \cup Statuses :
          GetUserBookings(userId, status)
    \/ Tick

SpecInv == InitInv /\ [][NextInv]_vars

\* Invitations beside the booking requests that change a booking.
NextInvBookings ==
    \/ \E who \in Users, userIds \in InviteLists : AddInvitees(who, 1, userIds)
    \/ \E r \in Req :
          \/ \E data \in InvUpdateInputs : UpdateFind(r, 1, data)
          \/ UpdateCheck(r)
          \/ UpdateWrite(r)
          \/ CancelFind(r, 1)
          \/ CancelWrite(r)

SpecInvBookings == InitInv /\ [][NextInvBookings]_vars

\* --------------------------- invitation transactions, statement by statement

\* What can go wrong after the write of an invitation transaction: a recipient
\* lookup that throws, a mail send that rejects, a COMMIT that fails.
Faults == {"none", "lookup", "send", "commit"}

\* What an invitation transaction step leaves alone.
TxnFrame == UNCHANGED <<db, nextId, req, tStart, tEnd, tMsg, now>>

\* withTransaction's catch: rollback, rethrow (an error that is no HttpError).
TxnRollback(fault) ==
    /\ txn' = [NoTxn EXCEPT !.fault = fault]
    /\ res' = Res(res.n + 1, txn.op, txn.who, txn.booking, txn.arg,
                  INTERNAL_SERVER_ERROR, {})
    /\ UNCHANGED <<inv, mail>>

\* addInvitees from beginTransaction to the write and the re-read of the list:
\* the errors thrown before the write roll back at once.
AddInviteesWrite(who, bookingId, userIds) ==
    /\ res.n < MaxOps
    /\ txn.pc = "idle"
    /\ LET booking == db[bookingId]
           valid == validUserIds(userIds, who)
           table == RepoAddInvitees(inv, bookingId, valid, now)
           answer(code) ==
               Res(res.n + 1, "addInvitees", who, bookingId, userIds, code, {})
       IN  IF ~Exists(booking)
           THEN res' = answer(NOT_FOUND) /\ txn' = NoTxn
           ELSE IF ~isOwner(booking, who)
           THEN res' = answer(FORBIDDEN) /\ txn' = NoTxn
           ELSE IF valid = {}
           THEN res' = answer(BAD_REQUEST) /\ txn' = NoTxn
           ELSE /\ txn' = Txn("notify", "addInvitees", who, bookingId, userIds,
                              table,
                              getInviteesByBooking(table, db, bookingId, now),
                              { Mail("invitation", u, bookingId) : u \in valid },
                              "none")
                /\ UNCHANGED res
    /\ UNCHANGED <<inv, mail>>
    /\ TxnFrame

\* respondToInvitation from beginTransaction to updateStatus.
RespondWrite(who, bookingId, status) ==
    /\ res.n < MaxOps
    /\ txn.pc = "idle"
    /\ LET booking == db[bookingId]
           answer(code) ==
               Res(res.n + 1, "respondToInvitation", who, bookingId, status, code, {})
       IN  IF ~isUserInvited(inv, bookingId, who)
           THEN res' = answer(NOT_FOUND) /\ txn' = NoTxn
           ELSE IF ~Exists(booking)
           THEN res' = answer(NOT_FOUND) /\ txn' = NoTxn
           ELSE IF hasStarted(booking, now)
           THEN res' = answer(BAD_REQUEST) /\ txn' = NoTxn
           ELSE /\ txn' = Txn("notify", "respondToInvitation", who, bookingId,
                              status,
                              RepoUpdateStatus(inv, bookingId, who, status, now),
                              {},
                              IF status = "accepted"
                              THEN {Mail("accepted", booking.user, bookingId)}
                              ELSE {},
                              "none")
                /\ UNCHANGED res
    /\ UNCHANGED <<inv, mail>>
    /\ TxnFrame

\* The notification block, inside the transaction's callback: the recipient
\* lookups are awaited and their error leaves the callback; the send is not
\* awaited and its rejection is caught and logged.
Notify(fault) ==
    /\ txn.pc = "notify"
    /\ fault \in {"none", "lookup", "send"}
    /\ fault # "none" => txn.to # {}
    /\ IF fault = "lookup"
       THEN TxnRollback(fault)
       ELSE /\ mail' = mail \cup txn.to
            /\ txn' = [txn EXCEPT !.pc = "commit", !.fault = fault]
            /\ UNCHANGED <<inv, res>>
    /\ TxnFrame

\* withTransaction after the callback returned: commit and return the result,
\* or rollback and rethrow when the commit fails.
Commit(fault) ==
    /\ txn.pc = "commit"
    /\ fault \in {"none", "commit"}
    /\ IF fault = "commit"
       THEN TxnRollback(fault)
       ELSE /\ inv' = txn.table
            /\ res' = Res(res.n + 1, txn.op, txn.who, txn.booking, txn.arg,
                          OK, txn.rows)
            /\ txn' = [NoTxn EXCEPT !.fault = txn.fault]
            /\ UNCHANGED mail
    /\ TxnFrame

NextNotify ==
    \/ \E who \in Users, id \in InvBookingIds, userIds \in InviteLists :
          AddInviteesWrite(who, id, userIds)
    \/ \E who \in Users, id \in InvBookingIds, status \in {"accepted", "declined"} :
          RespondWrite(who, id, status)
    \/ \E fault \in Faults : Notify(fault)
    \/ \E fault \in Faults : Commit(fault)

SpecNotify == InitInv /\ [][NextNotify]_vars

\* ------------------------------------------------------- room availability

\* parseDate('YYYY-MM-DD'): new Date of a date-only string is midnight UTC of
\* day d.
parseDate(d) == d * Day

\* Date.prototype.getDate() with getFullYear() and getMonth(): the local day.
GetDate(instant) == (instant + ProcessTzHours * 3600) \div Day

\* new Date(year, month, day, hour, minute): local fields to an instant.
LocalDate(d, hour, minute) == ParseLocal(At(d, hour, minute, 0))

\* generateTimeSlots: the 30-minute slots of the local day of date.
generateTimeSlots(date) ==
    LET d == GetDate(date)
    IN  { slot \in { [start |-> LocalDate(d, hour, minute),
                      end |-> LocalDate(d, hour, minute + 30)] :
                        hour \in BUSINESS_HOURS_START..(BUSINESS_HOURS_END - 1),
                        minute \in {0, 30} } :
            \/ GetHours(slot.end) < BUSINESS_HOURS_END
            \/ (GetHours(slot.end) = BUSINESS_HOURS_END
                /\ GetMinutes(slot.end) = 0) }

\* RoomsRepository.findBookingsByRoomAndDate: WHERE room_id = ? AND
\* DATE(start_time) = ? AND status IN ('confirmed', 'pending').
findBookingsByRoomAndDate(bookings, roomId, d) ==
    { id \in BookingIds :
        /\ Exists(bookings[id])
        /\ bookings[id].room = roomId
        /\ bookings[id].start \div Day = d
        /\ bookings[id].status \in {"confirmed", "pending"} }

\* One entry of available_slots or occupied_slots.
Slot(kind, start, end) == [kind |-> kind, start |-> start, end |-> end]

\* RoomsService.getRoomAvailability: the available and the occupied slots.
getRoomAvailability(bookings, roomId, d) ==
    LET found == findBookingsByRoomAndDate(bookings, roomId, d)
        allSlots == generateTimeSlots(parseDate(d))
        isOccupied(slot) ==
            \E id \in found :
                LET bookingStart == FromDb(bookings[id].start)
                    bookingEnd == FromDb(bookings[id].end)
                IN  slot.start < bookingEnd /\ slot.end > bookingStart
    IN  { Slot("available", ToISOString(slot.start), ToISOString(slot.end)) :
            slot \in { x \in allSlots : ~isOccupied(x) } }
        \cup { Slot("occupied", ToISOString(FromDb(bookings[id].start)),
                    ToISOString(FromDb(bookings[id].end))) : id \in found }

\* GET /rooms/:id/availability?date=: RoomsService.getRoomAvailability.
GetRoomAvailability(roomId, d) ==
    /\ res.n < MaxOps
    /\ res' = IF roomId \notin Rooms
              THEN Res(res.n + 1, "getRoomAvailability", 0, 0, <<roomId, d>>,
                       NOT_FOUND, {})
              ELSE Res(res.n + 1, "getRoomAvailability", 0, 0, <<roomId, d>>,
                       OK, getRoomAvailability(db, roomId, d))
    /\ UNCHANGED <<inv, mail>>
    /\ BookingsUnchanged

\* Wall-clock values of the availability model: late on day 1, early and in
\* business hours on day 2.
D1_2300 == At(1, 23, 0, 0)
D1_2330 == At(1, 23, 30, 0)
D2_0100 == At(2, 1, 0, 0)
D2_0900 == At(2, 9, 0, 0)
D2_0930 == At(2, 9, 30, 0)
D2_1000 == At(2, 10, 0, 0)

\* The bookings table when the requests arrive: bookings that createBooking
\* accepts, one of them across midnight.
AvailSeeds ==
    { s \in { << >>,
              << Row(1, 2, D2_0900, D2_1000, "confirmed") >>,
              << Row(1, 2, D2_0900, D2_0930, "cancelled"),
                 Row(2, 3, D2_0930, D2_1000, "pending") >>,
              << Row(1, 2, D1_2300, D2_0100, "confirmed") >> } :
        \A i \in 1..Len(s) :
           validateBookingTimes(ParseLocal(s[i].start), ParseLocal(s[i].end))
              = MsgNone }

InitAvail ==
    /\ \E s \in AvailSeeds : db = SeedDb(s) /\ nextId = Len(s) + 1
    /\ req = [r \in Req |-> IdleReq]
    /\ tStart = 0
    /\ tEnd = 0
    /\ tMsg = "idle"
    /\ inv = {}
    /\ now = Clock[1]
    /\ res = NoRes
    /\ mail = {}
    /\ txn = NoTxn

\* The requests that run before the availability queries.
AvailCreateInputs == { Data(1, 2, D2_0930, D2_1000, "absent") }
AvailUpdateInputs ==
    { Data(0, 0, D2_0900, D2_0930, "absent"),
      Data(0, 0, D1_2330, 0, "absent"),
      Data(0, 0, 0, D2_1000, "absent") }
AvailDays == {1, 2}

NextAvail ==
    \/ \E roomId \in {1, 2, 3}, d \in AvailDays : GetRoomAvailability(roomId, d)
    \/ \E r \in Req :
          \/ \E data \in AvailCreateInputs : CreateCheck(r, data)
          \/ CreateInsert(r)
          \/ \E data \in AvailUpdateInputs : UpdateFind(r, 1, data)
          \/ UpdateCheck(r)
          \/ UpdateWrite(r)

SpecAvail == InitAvail /\ [][NextAvail]_vars

\* ------------------------------------------------------------ properties

Active(row) == Exists(row) /\ row.status \in ActiveStatuses

\* [start, end) of two rows of one room intersect.
Overlap(a, b) == a.room = b.room /\ a.start < b.end /\ b.start < a.end

\* C1: in every reachable state no room has two bookings with status pending
\* or confirmed whose [start, end) intervals overlap.
NoDoubleBooking ==
    \A a, b \in BookingIds :
        (a # b /\ Active(db[a]) /\ Active(db[b])) => ~Overlap(db[a], db[b])

\* All the requests were Creates that passed validation and the lookups, for
\* one room and mutually overlapping windows, on a slot no stored booking
\* occupied, and all have been answered.
CreateRace ==
    /\ \A r \in Req :
          /\ req[r].op = "create"
          /\ req[r].pc = "done"
          /\ req[r].code \notin {BAD_REQUEST, NOT_FOUND}
    /\ \A r, p \in Req : Overlap(req[r].data, req[p].data)
    /\ \A r \in Req : \A id \in BookingIds :
          (Active(db[id]) /\ \A p \in Req : req[p].id # id)
              => ~Overlap(db[id], req[r].data)

\* C2: when all the requests are concurrent Creates for one room with mutually
\* overlapping windows on an otherwise free slot, exactly one succeeds and
\* every other one fails with Conflict.
ConcurrentCreatesOneWinner ==
    CreateRace =>
        /\ Cardinality({ r \in Req : req[r].code = OK }) = 1
        /\ \A r \in Req : req[r].code \in {OK, CONFLICT}

\* C3: a Create or Update that fails with Conflict writes nothing: no step of
\* a request that is still running, or that ends or has ended with Conflict,
\* changes the set of bookings or any booking's room, start, end or status.
ConflictWritesNothing ==
    [][ \A r \in Req :
          (req'[r] # req[r]
             /\ (req[r].code = CONFLICT \/ req'[r].code \in {"", CONFLICT}))
          => (db' = db /\ nextId' = nextId) ]_vars

\* A Create and an Update have both failed with Conflict.
ConflictRaised ==
    /\ \E r \in Req : req[r].op = "create" /\ req[r].pc = "done"
                      /\ req[r].code = CONFLICT
    /\ \E r \in Req : req[r].op = "update" /\ req[r].pc = "done"
                      /\ req[r].code = CONFLICT

\* C4: a Create with valid times, an existing room and an existing owner fails
\* with Conflict if and only if some stored booking of the same room with
\* status pending or confirmed has start < candidate.end and
\* end > candidate.start.
CreateConflictIffOverlap ==
    [][ \A r \in Req :
          (/\ req[r].pc = "idle"
           /\ req'[r].op = "create"
           /\ validateBookingTimes(ParseLocal(req'[r].data.start),
                                   ParseLocal(req'[r].data.end)) = MsgNone
           /\ req'[r].data.room \in Rooms
           /\ req'[r].data.user \in Users)
          => ((req'[r].code = CONFLICT)
                <=> \E id \in BookingIds :
                       /\ db[id].status \in {"pending", "confirmed"}
                       /\ db[id].room = req'[r].data.room
                       /\ db[id].start < req'[r].data.end
                       /\ db[id].end > req'[r].data.start) ]_vars

\* A Create succeeded whose window starts where a confirmed or pending booking
\* of its room ends, while another Create failed with Conflict.
CreateTouchingAccepted ==
    /\ \E r \in Req :
          /\ req[r].op = "create"
          /\ req[r].code = OK
          /\ \E id \in BookingIds :
                /\ Active(db[id])
                /\ db[id].room = req[r].data.room
                /\ db[id].end = req[r].data.start
    /\ \E r \in Req : req[r].op = "create" /\ req[r].code = CONFLICT

\* C5: business-hours boundary of the time validation, the other rules held
\* valid: a start at 08:59 is rejected and one at 09:00 is accepted; an end at
\* 17:00:00 is accepted and one at 17:00:01 is rejected.
BusinessHoursBoundary ==
    tMsg # "unchecked" =>
        /\ (tStart = At(1, 8, 59, 0) => tMsg # MsgNone)
        /\ (tStart = At(1, 9, 0, 0) /\ tEnd = At(1, 9, 30, 0) => tMsg = MsgNone)
        /\ (tStart = At(1, 16, 30, 0) /\ tEnd = At(1, 17, 0, 0) => tMsg = MsgNone)
        /\ (tEnd = At(1, 17, 0, 1) => tMsg # MsgNone)

\* C6: every accepted time range lies inside the business-hours window of one
\* day: start and end on the same local calendar day, start at or after 09:00
\* and end at or before 17:00.
AcceptedWithinOneBusinessDay ==
    tMsg = MsgNone =>
        /\ tStart \div Day = tEnd \div Day
        /\ tStart % Day >= 9 * 3600
        /\ tEnd % Day <= 17 * 3600

\* C7: a time range is accepted only if end - start is at least 30 and at most
\* 240 minutes, measured in seconds; 29 minutes is rejected, 30 and 240 are
\* accepted, 241 is rejected.
DurationWithinBounds ==
    /\ tMsg = MsgNone => (tEnd - tStart >= 30 * 60 /\ tEnd - tStart <= 240 * 60)
    /\ tMsg # "unchecked" =>
        /\ (tStart = At(1, 9, 0, 0) /\ tEnd = At(1, 9, 29, 0) => tMsg # MsgNone)
        /\ (tStart = At(1, 9, 0, 0) /\ tEnd = At(1, 9, 30, 0) => tMsg = MsgNone)
        /\ (tStart = At(1, 9, 0, 0) /\ tEnd = At(1, 13, 0, 0) => tMsg = MsgNone)
        /\ (tStart = At(1, 9, 0, 0) /\ tEnd = At(1, 13, 1, 0) => tMsg # MsgNone)

\* C8: in every reachable state every stored booking has end > start.
EndAfterStart ==
    \A id \in BookingIds : Exists(db[id]) => db[id].end > db[id].start

\* Two Updates of one booking ran concurrently, one supplying only start, the
\* other only end, each valid against the row it read; the first committed and
\* the second one's merged row, with end <= start, was refused.
PartialUpdatesRaced ==
    \E r, p \in Req :
        /\ req[r].op = "update" /\ req[p].op = "update"
        /\ req[r].id = req[p].id
        /\ req[r].data.start # 0 /\ req[r].data.end = 0
        /\ req[p].data.end # 0 /\ req[p].data.start = 0
        /\ req[r].code = OK
        /\ req[p].msg = MsgCheck
        /\ db[req[r].id].start = req[r].data.start
        /\ req[p].data.end <= req[r].data.start

\* C9: cancelled is terminal: no step changes a booking whose committed status
\* is cancelled, and an Update of it fails with the invalid-state error.
CancelledIsTerminal ==
    [][ \A id \in BookingIds :
          db[id].status = "cancelled" =>
            /\ db'[id] = db[id]
            /\ \A r \in Req :
                 (req[r].pc = "idle" /\ req'[r].op = "update" /\ req'[r].id = id)
                   => (req'[r].code = BAD_REQUEST /\ req'[r].msg = MsgCancelled) ]_vars

\* C10: Cancel is idempotent: a Cancel of an already-cancelled booking succeeds
\* and no step of a Cancel on a cancelled booking changes the state; Cancel of
\* a missing booking fails with NotFound and changes nothing.
CancelIdempotent ==
    [][ \A r \in Req :
          (req'[r] # req[r] /\ req'[r].op = "cancel") =>
            /\ db[req'[r].id].status = "cancelled" =>
                 /\ db' = db /\ nextId' = nextId
                 /\ req[r].pc = "idle" =>
                      (req'[r].pc = "done" /\ req'[r].code = OK)
            /\ ~Exists(db[req'[r].id]) =>
                 /\ db' = db /\ nextId' = nextId
                 /\ req'[r].pc = "done" /\ req'[r].code = NOT_FOUND ]_vars

\* Two Cancels of one booking have both succeeded, the second on a booking that
\* was already cancelled.
CancelledTwice ==
    \E r, p \in Req :
        /\ r # p
        /\ req[r].op = "cancel" /\ req[p].op = "cancel"
        /\ req[r].id = req[p].id
        /\ req[r].code = OK /\ req[p].code = OK
        /\ db[req[r].id].status = "cancelled"

\* The step is the answer of one of these handlers.
Answered(ops) == res'.n # res.n /\ res'.op \in ops

ResponseDeadline ==
    [][ Answered({"respondToInvitation"}) =>
          LET booking == db[res'.booking]
              invited == \E row \in inv : row.booking = res'.booking
                                          /\ row.user = res'.who
          IN  /\ ~invited => (res'.code = NOT_FOUND /\ inv' = inv)
              /\ (invited /\ now < ParseLocal(booking.start))
                    => /\ res'.code = OK
                       /\ \E row \in inv' :
                             /\ row.booking = res'.booking
                             /\ row.user = res'.who
                             /\ row.status = res'.arg
              /\ (invited /\ now >= ParseLocal(booking.start))
                    => (res'.code = BAD_REQUEST /\ inv' = inv) ]_vars

\* A response one second before the booking's start succeeded.
RespondedOneSecondBefore ==
    /\ res.op = "respondToInvitation"
    /\ res.code = OK
    /\ now = ParseLocal(db[res.booking].start) - 1

\* C13: List shows display status expired exactly for the invitations whose
\* stored status is pending and whose booking's start is not after the current
\* instant, shows the stored status for all others, and changes no stored
\* status.
ExpiryOverlay ==
    [][ (Answered({"getInvitees"}) /\ res'.code = OK) =>
          /\ inv' = inv
          /\ res'.rows =
               { [user |-> row.user, status |-> row.status,
                  display_status |->
                     IF row.status = "pending"
                        /\ ParseLocal(db[res'.booking].start) <= now
                     THEN "expired" ELSE row.status] :
                   row \in { x \in inv : x.booking = res'.booking } } ]_vars

\* A list showed a pending invitation as expired next to one shown as stored.
ExpiredShown ==
    /\ res.op = "getInvitees"
    /\ \E row \in res.rows : row.status = "pending" /\ row.display_status = "expired"
    /\ \E row \in res.rows : row.display_status = row.status
    /\ \E row \in inv : row.booking = res.booking /\ row.status = "pending"

\* C14: at most one invitation exists per (booking, invitee) pair, and an
\* Invite of a pair that already exists leaves exactly one invitation for it,
\* with status pending and a refreshed invited_at.
OneInvitationPerPair ==
    /\ [](\A x, y \in inv : (x.booking = y.booking /\ x.user = y.user) => x = y)
    /\ [][ (Answered({"addInvitees"}) /\ res'.code = OK) =>
             \A old \in inv :
                (old.booking = res'.booking /\ old.user \in res'.arg
                 /\ old.user # res'.who) =>
                   \E row \in inv' :
                      /\ row.status = "pending"
                      /\ row.invited_at = now
                      /\ \A x \in inv' :
                            (x.booking = old.booking /\ x.user = old.user)
                               => x = row ]_vars

\* An invitee who had answered was invited again: the one invitation of the
\* pair is pending again and carries the instant of the second Invite.
ReInvited ==
    /\ res.op = "addInvitees"
    /\ res.code = OK
    /\ \E row \in inv :
          /\ row.booking = res.booking
          /\ row.user \in res.arg
          /\ row.status = "pending"
          /\ row.responded_at = Earlier
          /\ row.invited_at > Earlier

\* C15: no invitation has its booking's owner as invitee; Invite drops the
\* owner's own id from the list; no operation changes a booking's owner.
OwnerNeverInvited ==
    /\ [](\A row \in inv :
             Exists(db[row.booking]) => db[row.booking].user # row.user)
    /\ [][ \A id \in BookingIds :
             Exists(db[id]) => db'[id].user = db[id].user ]_vars

\* The owner's Invite named the owner too and succeeded for the others, on a
\* booking that an Update or a Cancel has changed.
OwnerInvitedSelf ==
    /\ res.op = "addInvitees"
    /\ res.code = OK
    /\ res.who \in res.arg
    /\ \E row \in inv : row.booking = res.booking /\ row.invited_at = now
    /\ (db[1].start # T10 \/ db[1].status # "confirmed")

\* C16: Invite by the owner fails with the invalid-input error and changes
\* nothing when no invitee remains after the requester's own id and the ids of
\* non-existing users are dropped; otherwise exactly the surviving invitees
\* are upserted and every other invitation is unchanged.
SurvivorsUpserted ==
    [][ (Answered({"addInvitees"}) /\ Exists(db[res'.booking])
           /\ db[res'.booking].user = res'.who) =>
          LET b == res'.booking
              survivors == { u \in res'.arg : u # res'.who /\ u \in Users }
              touched(row) == row.booking = b /\ row.user \in survivors
          IN  IF survivors = {}
              THEN res'.code = BAD_REQUEST /\ inv' = inv /\ mail' = mail
              ELSE /\ res'.code = OK
                   /\ { row \in inv' : ~touched(row) }
                        = { row \in inv : ~touched(row) }
                   /\ \A u \in survivors :
                         \E row \in inv' :
                            /\ row.booking = b
                            /\ row.user = u
                            /\ row.status = "pending"
                            /\ row.invited_at = now ]_vars

\* An Invite naming only the owner and a user that does not exist was refused.
NoSurvivorRefused ==
    /\ res.op = "addInvitees"
    /\ res.code = BAD_REQUEST
    /\ res.arg = {2, 4}

\* C17: List is answered exactly when the booking exists and the requester is
\* an admin, the owner, or has an invitation row for the booking; any other
\* requester gets Forbidden; a missing booking yields NotFound.
ListVisibility ==
    [][ Answered({"getInvitees"}) =>
          LET booking == db[res'.booking]
              who == res'.who
              allowed == \/ who \in Admins
                         \/ booking.user = who
                         \/ \E row \in inv : row.booking = res'.booking
                                             /\ row.user = who
          IN  /\ ~Exists(booking) => res'.code = NOT_FOUND
              /\ (Exists(booking) /\ allowed) => res'.code = OK
              /\ (Exists(booking) /\ ~allowed) => res'.code = FORBIDDEN ]_vars

\* An invitee who is neither admin nor owner got the list.
InviteeSawList ==
    /\ res.op = "getInvitees"
    /\ res.code = OK
    /\ res.who \notin Admins
    /\ db[res.booking].user # res.who
    /\ res.rows # {}

\* C18: the bookings query for a user with a status filter s returns exactly
\* the bookings the user owns or is invited to whose status is s (with no
\* filter: all of them), each once.
StatusFilterExact ==
    [][ Answered({"getUserBookings"}) =>
          { row.id : row \in res'.rows } =
             { id \in BookingIds :
                 /\ Exists(db[id])
                 /\ \/ db[id].user = res'.who
                    \/ \E row \in inv : row.booking = id /\ row.user = res'.who
                 /\ (res'.arg # "" => db[id].status = res'.arg) } ]_vars

\* C19: fetch of a booking by id returns the booking when the requester is
\* its owner, an admin, or a user with an invitation to it; every other
\* requester gets Forbidden, and a missing booking yields NotFound.
InviteeMayFetch ==
    [][ Answered({"getBookingById"}) =>
          LET booking == db[res'.booking]
              who == res'.who
              allowed == \/ who \in Admins
                         \/ booking.user = who
                         \/ \E row \in inv : row.booking = res'.booking
                                             /\ row.user = who
          IN  /\ ~Exists(booking) => res'.code = NOT_FOUND
              /\ (Exists(booking) /\ allowed)
                    => (res'.code = OK /\ res'.rows = {booking})
              /\ (Exists(booking) /\ ~allowed) => res'.code = FORBIDDEN ]_vars

\* C20: when a Cancel that changes a booking from a non-cancelled status to
\* cancelled commits, a cancellation notification goes out to every invitee
\* of the booking whose invitation is accepted, and to nobody else.
CancelNotifiesAccepted ==
    [][ \A id \in BookingIds :
          (Exists(db[id]) /\ db[id].status # "cancelled"
             /\ db'[id].status = "cancelled") =>
             mail' \ mail =
                { Mail("cancelled", row.user, id) :
                    row \in { x \in inv : x.booking = id
                                          /\ x.status = "accepted" } } ]_vars

\* C21: the invitee notifications of Invite and the owner notification of
\* Respond(accepted) are triggered only after the transaction that wrote the
\* invitation change has committed: whenever a notification is triggered, the
\* change it announces is in the committed invitations.
NotifiedOnlyAfterCommit ==
    [][ \A m \in mail' \ mail :
          \E row \in inv' :
             /\ row.booking = m.booking
             /\ m.kind = "invitation" =>
                   (row.user = m.to /\ row.status = "pending"
                    /\ row.invited_at = now)
             /\ m.kind = "accepted" =>
                   (row.user = txn.who /\ row.status = "accepted"
                    /\ row.responded_at = now) ]_vars

\* C22: a failure while preparing or sending an Invite or Respond
\* notification (recipient lookup or mail send) never rolls the invitation
\* write back and never turns the result into an error.
NotificationFailureHarmless ==
    [][ (txn.pc = "notify" /\ txn'.fault \in {"lookup", "send"}) =>
          /\ txn'.pc = "commit"
          /\ txn'.table = txn.table
          /\ res' = res ]_vars

\* C23: for a room and a date, availability lists a generated 30-minute
\* business-hours slot as available if and only if no pending or confirmed
\* booking of that room overlaps it (slot.start < booking.end and slot.end >
\* booking.start), and every generated slot not listed as available overlaps
\* one of the returned occupied intervals.
AvailabilityExact ==
    [][ (Answered({"getRoomAvailability"}) /\ res'.code = OK) =>
          LET roomId == res'.arg[1]
              d == res'.arg[2]
              slots == { <<At(d, 0, 0, 0) + k * 1800, At(d, 0, 0, 0) + (k + 1) * 1800>> :
                           k \in (2 * BUSINESS_HOURS_START)..(2 * BUSINESS_HOURS_END - 1) }
              booked(slot) ==
                  \E id \in BookingIds :
                      /\ Exists(db[id])
                      /\ db[id].room = roomId
                      /\ db[id].status \in {"pending", "confirmed"}
                      /\ slot[1] < db[id].end
                      /\ slot[2] > db[id].start
              listed(slot) ==
                  Slot("available", ParseLocal(slot[1]), ParseLocal(slot[2]))
                     \in res'.rows
          IN  \A slot \in slots :
                 /\ listed(slot) <=> ~booked(slot)
                 /\ ~listed(slot) =>
                       \E o \in res'.rows :
                          /\ o.kind = "occupied"
                          /\ ParseLocal(slot[1]) < o.end
                          /\ ParseLocal(slot[2]) > o.start ]_vars

\* C24: a Create or Update is rejected with Conflict only if, at the moment
\* it decides, an overlapping pending/confirmed booking of the same room
\* (other than the updated booking itself) is committed.
ConflictOnlyOnCommittedOverlap ==
    [][ \A r \in Req :
          (req[r].code # CONFLICT /\ req'[r].code = CONFLICT) =>
             LET q == req'[r]
                 candidate == IF q.op = "create" THEN RepoCreate(q.data)
                              ELSE RepoUpdate(q.cur, q.data)
             IN  \E id \in BookingIds :
                    /\ (q.op = "update" => id # q.id)
                    /\ Active(db[id])
                    /\ Overlap(db[id], candidate) ]_vars

\* C25: an Update that changes only the status of a non-active booking to
\* confirmed or pending re-runs the conflict check with the booking's current
\* room and times, excluding its own id, and fails with Conflict, leaving the
\* status unchanged, when another pending/confirmed booking of that room
\* overlaps.
ReactivationChecked ==
    [][ \A r \in Req :
          LET q == req[r]
          IN  (/\ q.op = "update"
               /\ q.pc = "check"
               /\ req'[r].pc # "check"
               /\ q.data = Data(0, 0, 0, 0, q.data.status)
               /\ q.data.status \in ActiveStatuses
               /\ q.cur.status \notin ActiveStatuses
               /\ \E id \in BookingIds :
                     id # q.id /\ Active(db[id]) /\ Overlap(db[id], q.cur))
              => (req'[r].code = CONFLICT /\ db' = db) ]_vars

\* C26: accepted and declined are terminal for Respond: a Respond on an
\* invitation whose stored status is accepted or declined does not change its
\* stored status; Respond only moves pending to accepted or to declined.
ResponseIsFinal ==
    [][ Answered({"respondToInvitation"}) =>
          \A old \in inv :
             (old.booking = res'.booking /\ old.user = res'.who
              /\ old.status \in {"accepted", "declined"})
               => \E row \in inv' :
                     /\ row.booking = old.booking
                     /\ row.user = old.user
                     /\ row.status = old.status ]_vars

\* C27: no Create, Update or Cancel request ever sets a booking's status to
\* completed: completed is reached only out-of-band.
CompletedOnlyOutOfBand ==
    [][ \A id \in BookingIds :
          db'[id].status = "completed" => db[id].status = "completed" ]_vars

\* C28: a Create or Update that cannot obtain the conflict-check lock within
\* the store's lock-wait or deadlock limit fails with a transient error kind
\* of its own, distinct from Conflict and from the generic internal error,
\* and writes nothing.
LockFailureIsTransientKind ==
    [][ \A r \in Req :
          (req[r].msg # MsgDeadlock /\ req'[r].msg = MsgDeadlock) =>
             /\ req'[r].code \notin {OK, CONFLICT, INTERNAL_SERVER_ERROR}
             /\ db' = db
             /\ nextId' = nextId ]_vars

\* C29: for every successful Create and Update, the (room, start, end) triple
\* that was passed to the conflict check is, as the store reads it, exactly
\* the room, start and end the booking holds after the commit; also when
\* another Update of the booking commits between the read and the write.
CheckedIsStored ==
    [][ \A r \in Req :
          (/\ req[r].pc = "write"
           /\ req'[r].code = OK
           /\ req'[r].op \in {"create", "update"}
           /\ req[r].lock # NoLock)
          => LET stored == db'[req'[r].id]
                 checked == req[r].lock
             IN  /\ stored.room = checked.room
                 /\ stored.start = checked.start
                 /\ stored.end = checked.end ]_vars

\* C30: in every reachable state an invitation's responded_at is non-null if
\* and only if its stored status is accepted or declined; an invitation with
\* stored status pending, also one reset to pending by a re-invite, has
\* responded_at null.
RespondedAtMatchesStatus ==
    \A row \in inv :
        (row.responded_at # 0) <=> (row.status \in {"accepted", "declined"})
=============================================================================
